---- MODULE Spec2Model ----
(***************************************************************************)
(* A model of the data-fetch framework: the scrape lifecycle of one        *)
(* UniversalScraper instance (compliance check, fetch under the retry      *)
(* wrapper, raw-response persistence, parse, validate), the in-memory      *)
(* DataWarehouse and the RealtimeNormalizer that feeds it.                 *)
(***************************************************************************)
EXTENDS Integers, Sequences, FiniteSets, TLC

(***************************************************************************)
(* Bounds of the model.                                                    *)
(***************************************************************************)
\* scrape calls made on one scraper instance
MaxScrapes == 2
\* validation warnings a table can produce
MaxWarnings == 2
\* add_data_point calls made on one warehouse
MaxInserts == 2
\* points the transformers produce in one fetch_and_normalize
MaxPoints == 2

\* The longest list of captured requests handed to analyze_requests.
MaxRequests == 2

\* The largest number of entries of a JSON object handed to extract.
MaxEntries == 2

(***************************************************************************)
(* Program constants.                                                      *)
(***************************************************************************)
\* BaseScraper.__init__: max_retries: int = 3
DefaultMaxRetries == 3

URLs == {"u1", "u2"}

\* No value (Python's None), as a record so that it compares with records.
NULL == [null |-> TRUE]

RobotsStatus == {"ALLOWED", "DISALLOWED", "UNKNOWN"}

RobotsDecision(status) == [status |-> status]

(***************************************************************************)
(* Exceptions.  An exception is its type name, the marker substrings its   *)
(* lower-cased message contains, and the attempt on which it was raised.   *)
(***************************************************************************)
\* The exceptions the environment raises in the scrape lifecycle: a browser
\* that fails to start, and a direct request that fails (a connection error,
\* the HTTPError of raise_for_status with the status in its message, or a
\* timeout, whose message says that the request timed out).
BrowserErrors ==
    { [type |-> "ConnectionError", msg |-> {}],
      [type |-> "RuntimeError",    msg |-> {}] }

RequestErrors ==
    { [type |-> "ConnectionError", msg |-> {}],
      [type |-> "Timeout",         msg |-> {"timed out"}],
      [type |-> "HTTPError",       msg |-> {"429"}],
      [type |-> "HTTPError",       msg |-> {"403"}],
      [type |-> "HTTPError",       msg |-> {"401"}] }

Exc(type, msg, at) == [type |-> type, msg |-> msg, at |-> at]

\* type names containing "Connection", "Timeout" or "HTTPError"
NetworkTypeNames == {"ConnectionError", "Timeout", "HTTPError"}
\* type names containing "JSONDecode", "ValueError", "KeyError", "AttributeError"
ParsingTypeNames == {"JSONDecodeError", "ValueError", "KeyError", "AttributeError"}

_classify_error(e) ==
    IF e.type \in NetworkTypeNames
    THEN IF "429" \in e.msg THEN "rate_limit"
         ELSE IF "403" \in e.msg THEN "bot_detection"
         ELSE IF "401" \in e.msg THEN "auth"
         ELSE "network"
    ELSE IF "401" \in e.msg THEN "auth"
    ELSE IF "429" \in e.msg THEN "rate_limit"
    ELSE IF "403" \in e.msg THEN "bot_detection"
    ELSE IF e.type \in ParsingTypeNames THEN "parsing"
    ELSE "unknown"

(***************************************************************************)
(* State of the scraper instance and of the scrape call in progress.       *)
(***************************************************************************)
VARIABLES
    pc,                 \* position of the scrape call in progress
    call,               \* its arguments: entry point, url, override_robots, save_raw
    result,             \* the ScraperResult being populated
    returned,           \* how the last call ended: "none", "result" or "raised"
    max_retries,        \* self.max_retries
    _robots_decision,   \* self._robots_decision
    _discovery_result,  \* self._discovery_result: NULL or [url, kind]
    attempt,            \* loop variable of _retry_operation
    last_error,         \* last_error of _retry_operation
    err_types,          \* the classes of the failed attempts of this retry sequence
    raw_data,           \* what fetch_raw returned: NULL or [type]
    df,                 \* what parse_raw returned: NULL or a table, empty or not
    calls,              \* per scrape call: how often each stage was invoked
    page_loads,         \* per URL: page loads over the lifetime of the instance
    scrapes             \* scrape calls started on this instance

scraperVars == <<pc, call, result, returned, max_retries, _robots_decision,
                 _discovery_result, attempt, last_error, err_types, raw_data, df,
                 calls, page_loads, scrapes>>

\* the warehouse and the normalization flow (DataWarehouse, RealtimeNormalizer)
VARIABLES
    _data,          \* self._data, the rows in insertion order
    inserts,        \* add_data_point calls started so far
    first_value,    \* per id: the value of the first point inserted with it, 0 if none
    normalization,  \* the NormalizationResult of the last fetch_and_normalize, or NULL
    produced,       \* the points the transformers produced in that call
    caller_pc,      \* per concurrent caller: its position in add_data_point
    caller_point,   \* per concurrent caller: the point it inserts
    caller_rows,    \* per concurrent caller: the concatenated rows it is about to store
    finished        \* ids of the add_data_point calls that have returned

warehouseVars == <<_data, inserts, first_value, normalization, produced,
                   caller_pc, caller_point, caller_rows, finished>>

\* a multi-site batch (RealtimeScraper.scrape_asset_data)
VARIABLES
    batch_pc,       \* position of the batch: "idle", "loop" or "returned"
    site_ids,       \* the batch's list of sites
    site_index,     \* the loop's position in site_ids
    attempts,       \* the sites scrape_single_site was called for, in call order
    outcomes,       \* how each of these calls ended
    results,        \* the sites with data, in insertion order (keys of results)
    batch_outcome   \* what the caller gets back, or NULL

batchVars == <<batch_pc, site_ids, site_index, attempts, outcomes, results, batch_outcome>>

\* the robots.txt compliance gate (utils/robots.py)
VARIABLES
    robots_urls,      \* the URLs the gate is asked about
    robots_response,  \* how the sites answer a request for robots.txt
    robots_entry,     \* the function that was called: "none",
                      \* "check_robots_permission" or "check_multiple_urls"
    robots_results    \* per URL: the URL, whether robots.txt was fetched for
                      \* it, whether it was parsed, the status decided

robotsVars == <<robots_urls, robots_response, robots_entry, robots_results>>

\* what the actions of one component leave alone
\* The network inspector (detector/network_inspector.py).
VARIABLES
    score_request,    \* the request handed to _calculate_score, NULL if none
    score_target,     \* the target_domain argument of that call
    score_result,     \* the scores it returned: empty before the call
    inspector_pc,     \* position of analyze_requests: idle, loop, returned
    target_domain,    \* netloc of target_url, "" when there is none
    seen,             \* number of requests the loop has taken
    captured,         \* the requests the loop has taken, in arrival order
    candidates        \* the candidate list of analyze_requests

inspectorVars == <<score_request, score_target, score_result, inspector_pc,
                   target_domain, seen, captured, candidates>>

\* One call of BaseScraper._retry_operation on an arbitrary operation.
VARIABLES
    retry_pc,          \* position of the call: loop, done
    retry_max,         \* self.max_retries
    auth_config,       \* whether self.config and self.config.auth_config hold
    retry_attempt,     \* loop variable `attempt`
    retry_last_error,  \* local `last_error`
    retry_log,         \* per attempt made: how it failed, the delay slept
                       \* after it and whether the session was refreshed
    retry_outcome      \* how the call ended: what it returned or raised

retryVars == <<retry_pc, retry_max, auth_config, retry_attempt,
               retry_last_error, retry_log, retry_outcome>>

\* One call of JsonExtractor.extract.
VARIABLES
    json_data,    \* the parsed JSON handed to extract, NULL if none
    json_table    \* the DataFrame it returned, NULL before the call

jsonVars == <<json_data, json_table>>

nonScraperVars == <<warehouseVars, batchVars, robotsVars, inspectorVars, retryVars,
                    jsonVars>>
nonWarehouseVars == <<scraperVars, batchVars, robotsVars, inspectorVars, retryVars,
                      jsonVars>>
nonBatchVars == <<scraperVars, warehouseVars, robotsVars, inspectorVars, retryVars,
                  jsonVars>>
nonRobotsVars == <<scraperVars, warehouseVars, batchVars, inspectorVars, retryVars,
                   jsonVars>>
nonInspectorVars == <<scraperVars, warehouseVars, batchVars, robotsVars, retryVars,
                      jsonVars>>
nonRetryVars == <<scraperVars, warehouseVars, batchVars, robotsVars, inspectorVars,
                  jsonVars>>
nonJsonVars == <<scraperVars, warehouseVars, batchVars, robotsVars, inspectorVars,
                 retryVars>>

NoCalls == [compliance |-> 0, fetch |-> 0, save |-> 0, parse |-> 0,
            validate |-> 0, sleep |-> 0, direct |-> 0]

NewResult == [success |-> FALSE, error |-> NULL, robots_decision |-> NULL,
              validation_warnings |-> 0, raw_response_path |-> NULL,
              data |-> NULL]

InitScraper ==
    /\ pc = "idle"
    /\ call = NULL
    /\ result = NULL
    /\ returned = "none"
    /\ max_retries \in 0..DefaultMaxRetries
    /\ _robots_decision = NULL
    /\ _discovery_result = NULL
    /\ attempt = 0
    /\ last_error = NULL
    /\ err_types = <<>>
    /\ raw_data = NULL
    /\ df = NULL
    /\ calls = NoCalls
    /\ page_loads = [u \in URLs |-> 0]
    /\ scrapes = 0

Bump(c, f) == [c EXCEPT ![f] = @ + 1]

\* The scrape call ends by returning r; its locals are gone.
Return(r) ==
    /\ result' = r
    /\ returned' = "result"
    /\ pc' = "idle"
    /\ attempt' = 0
    /\ last_error' = NULL
    /\ raw_data' = NULL

\* The scrape call goes on at p with result r; the locals are set by the action.
Goto(p, r) ==
    /\ result' = r
    /\ returned' = "none"
    /\ pc' = p

(***************************************************************************)
(* BaseScraper.scrape: entry.                                              *)
(***************************************************************************)
StartCall(entry, url, override_robots, save_raw) ==
    /\ pc = "idle"
    /\ scrapes < MaxScrapes
    /\ scrapes' = scrapes + 1
    /\ call' = [entry |-> entry, url |-> url, override_robots |-> override_robots,
                save_raw |-> save_raw]
    /\ calls' = NoCalls
    /\ err_types' = <<>>
    /\ df' = NULL
    /\ UNCHANGED nonScraperVars

scrape ==
    \E url \in URLs, override_robots \in BOOLEAN, save_raw \in BOOLEAN :
        /\ StartCall("scrape", url, override_robots, save_raw)
        /\ Goto("compliance", NewResult)
        /\ UNCHANGED <<max_retries, _robots_decision, _discovery_result, page_loads,
                       attempt, last_error, raw_data>>

(***************************************************************************)
(* BaseScraper.check_compliance, as called by scrape (step 1).             *)
(***************************************************************************)
\* A check that lets the override flag waive a DISALLOWED verdict too.
compliance_raises_unless_override(decision, override) ==
    decision = "DISALLOWED" /\ ~override

\* check_compliance raises PermissionError
compliance_raises(decision, override) == decision = "DISALLOWED"

check_compliance ==
    /\ pc = "compliance"
    /\ UNCHANGED nonScraperVars
    /\ \E status \in RobotsStatus :
        /\ calls' = Bump(calls, "compliance")
        /\ _robots_decision' = RobotsDecision(status)
        /\ IF compliance_raises(status, call.override_robots)
           THEN Return([result EXCEPT !.error = Exc("PermissionError", {}, -1)])
           ELSE /\ Goto("fetch", [result EXCEPT !.robots_decision = RobotsDecision(status)])
                /\ UNCHANGED <<attempt, last_error, raw_data>>
        /\ UNCHANGED <<call, max_retries, _discovery_result, err_types, page_loads,
                       scrapes, df>>

(***************************************************************************)
(* UniversalScraper.discover_data_sources: one run of discovery for url.   *)
(* The environment decides how it ends: the browser fails to start         *)
(* ("raises", before any navigation), or the page is loaded and the load   *)
(* ends in a page error, in candidate endpoints (the best one with or      *)
(* without a captured body) or in HTML only.                               *)
(***************************************************************************)
PageKinds == {"page_error", "endpoint_body", "endpoint_nobody", "html_only"}
DiscoveryOutcomes == PageKinds \cup {"raises"}

\* the DiscoveryResult the method returns
DiscoveryResult(url, kind) == [url |-> url, kind |-> kind]

\* self._discovery_result after discover_data_sources(url) ended with kind:
\* a page error returns before the assignment of line 129
discover_data_sources(stored, url, kind) ==
    IF kind \in {"page_error", "raises"} THEN stored ELSE DiscoveryResult(url, kind)

\* the discovery has usable data: candidate endpoints, or captured HTML
has_sources(kind) == kind \in {"endpoint_body", "endpoint_nobody", "html_only"}

(***************************************************************************)
(* UniversalScraper.fetch_raw(url), given the environment's choices: dk,   *)
(* how a discovery would end; e, the exception the browser or the direct   *)
(* request would raise; direct_ok, whether a direct request succeeds.      *)
(* The value is what the call does: whether it ran discovery, the stored   *)
(* discovery result afterwards, whether it issued a direct request, and    *)
(* the raw data it returns or the exception it raises.                     *)
(***************************************************************************)
\* fetch_raw runs discovery first (line 142)
needs_discovery(stored, url) == stored = NULL \/ stored.url # url

\* A fetch that requests the best endpoint again although its body was
\* captured.
fetches_directly_any_endpoint(kind) ==
    kind \in {"endpoint_body", "endpoint_nobody"}

\* `if best_endpoint.response_body is None`, inside `if
\* discovery.candidate_endpoints`: the endpoint is requested with requests.get
fetches_directly(kind) == kind = "endpoint_nobody"

fetch_raw(stored, url, dk, e, direct_ok) ==
    LET discovers == needs_discovery(stored, url)
        started   == discovers /\ dk # "raises"
        \* line 143 stores whatever discovery returned, a page error included
        discovery == IF started THEN DiscoveryResult(url, dk) ELSE stored
        kind      == IF discovery = NULL THEN "raises" ELSE discovery.kind
        direct    == (~discovers \/ started) /\ fetches_directly(kind)
    IN  [ discovers |-> discovers,
          loaded    |-> started,
          stored    |-> discovery,
          direct    |-> direct,
          raised    |-> IF discovers /\ ~started THEN e
                        ELSE IF kind = "endpoint_nobody" /\ ~direct_ok
                             THEN [type |-> "ValueError", msg |-> e.msg]
                        ELSE IF kind = "page_error"
                             THEN [type |-> "ValueError", msg |-> {}]
                        ELSE NULL,
          raw       |-> IF kind \in {"endpoint_body", "endpoint_nobody"}
                        THEN [type |-> "api_json"]
                        ELSE [type |-> "dom_table"] ]

\* The environment's choices that make a difference to fetch_raw(url): how
\* discovery ends when it runs, and the exception raised when one is.
NoError == [type |-> "none", msg |-> {}]

FetchChoices(stored, url) ==
    LET dks == IF needs_discovery(stored, url) THEN DiscoveryOutcomes ELSE {"raises"}
        direct(dk) == dk = "endpoint_nobody"
                      \/ (~needs_discovery(stored, url) /\ stored.kind = "endpoint_nobody")
    IN  UNION { IF needs_discovery(stored, url) /\ dk = "raises"
                THEN { [dk |-> dk, e |-> e, direct_ok |-> FALSE] : e \in BrowserErrors }
                ELSE IF direct(dk)
                THEN { [dk |-> dk, e |-> e, direct_ok |-> FALSE] : e \in RequestErrors }
                     \cup { [dk |-> dk, e |-> NoError, direct_ok |-> TRUE] }
                ELSE { [dk |-> dk, e |-> NoError, direct_ok |-> TRUE] }
              : dk \in dks }

(***************************************************************************)
(* BaseScraper._retry_operation(self.fetch_raw, url): one iteration of the *)
(* loop `for attempt in range(self.max_retries)`.                          *)
(***************************************************************************)
\* A loop that makes one attempt too many.
retry_continues_once_more(a, n) == a <= n

\* the loop body runs once more
retry_continues(a, n) == a < n

\* a delay is slept after the failure of attempt a
retry_sleeps(a, n) == a < n - 1

_retry_operation ==
    /\ pc = "fetch"
    /\ UNCHANGED nonScraperVars
    /\ retry_continues(attempt, max_retries)
    /\ \E c \in FetchChoices(_discovery_result, call.url) :
        LET f == fetch_raw(_discovery_result, call.url, c.dk, c.e, c.direct_ok)
        IN  /\ _discovery_result' = f.stored
            /\ page_loads' = IF f.loaded
                             THEN [page_loads EXCEPT ![call.url] = @ + 1]
                             ELSE page_loads
            /\ IF f.raised = NULL
               THEN /\ raw_data' = f.raw
                    /\ Goto("save", result)
                    /\ calls' = [calls EXCEPT !.fetch = @ + 1,
                                              !.direct = @ + (IF f.direct THEN 1 ELSE 0)]
                    /\ UNCHANGED <<attempt, last_error, err_types>>
               ELSE /\ last_error' = Exc(f.raised.type, f.raised.msg, attempt)
                    /\ err_types' = Append(err_types, _classify_error(f.raised))
                    /\ calls' = [calls EXCEPT !.fetch = @ + 1,
                                              !.direct = @ + (IF f.direct THEN 1 ELSE 0),
                                              !.sleep = @ + (IF retry_sleeps(attempt, max_retries)
                                                             THEN 1 ELSE 0)]
                    /\ attempt' = attempt + 1
                    /\ Goto("fetch", result)
                    /\ UNCHANGED raw_data
            /\ UNCHANGED <<call, max_retries, _robots_decision, df, scrapes>>

\* what `raise last_error` raises once the loop is over
retry_raises(err) == IF err = NULL THEN Exc("TypeError", {}, -1) ELSE err

\* The loop is over without a return: `raise last_error`, caught by the
\* `except Exception` of scrape, which stores str(e) and returns the result.
_retry_exhausted ==
    /\ pc = "fetch"
    /\ UNCHANGED nonScraperVars
    /\ ~retry_continues(attempt, max_retries)
    /\ Return([result EXCEPT !.error = retry_raises(last_error)])
    /\ UNCHANGED <<call, max_retries, _robots_decision, _discovery_result,
                   err_types, calls, page_loads, scrapes, df>>

(***************************************************************************)
(* scrape, step 2 continued: the raw response is persisted when save_raw   *)
(* is set (raw_data is a non-empty dict, hence true).  Writing the file    *)
(* can fail; the `except Exception` of scrape then ends the call.          *)
(***************************************************************************)
save_raw_response ==
    /\ pc = "save"
    /\ UNCHANGED nonScraperVars
    /\ IF call.save_raw
       THEN \E written \in BOOLEAN :
                /\ calls' = Bump(calls, "save")
                /\ IF written
                   THEN /\ Goto("parse", [result EXCEPT !.raw_response_path = [path |-> "raw"]])
                        /\ UNCHANGED <<attempt, last_error, raw_data>>
                   ELSE Return([result EXCEPT !.error = Exc("OSError", {}, -1)])
       ELSE /\ Goto("parse", result)
            /\ UNCHANGED <<calls, attempt, last_error, raw_data>>
    /\ UNCHANGED <<call, max_retries, _robots_decision, _discovery_result,
                   err_types, page_loads, scrapes, df>>

(***************************************************************************)
(* UniversalScraper.parse_raw, and the empty check of scrape (step 3).     *)
(***************************************************************************)
\* How parse_raw can end for raw data of a type: for "api_json" an empty
\* table (undecodable JSON, nothing extracted), a table with rows, or the
\* KeyError of a data path that is missing; for "dom_table" the value of
\* `extract_best_table(...) or pd.DataFrame()`: an empty table when no table
\* qualifies, and the ValueError of a DataFrame's truth value when one does.
DataFrame(empty) == [empty |-> empty]

parse_raw(type) ==
    IF type = "api_json"
    THEN { [df |-> DataFrame(TRUE), raised |-> NULL],
           [df |-> DataFrame(FALSE), raised |-> NULL],
           [df |-> NULL, raised |-> Exc("KeyError", {}, -1)] }
    ELSE { [df |-> DataFrame(TRUE), raised |-> NULL],
           [df |-> NULL, raised |-> Exc("ValueError", {}, -1)] }

\* `df is None or (isinstance(df, pd.DataFrame) and df.empty)`
no_data(d) == d = NULL \/ d.empty

NoDataExtracted == [text |-> "No data extracted"]

\* An empty check that returns the result without an error message.
no_data_result_silent(r) == r

\* the result returned when nothing was extracted (lines 417-419)
no_data_result(r) == [r EXCEPT !.error = NoDataExtracted]

\* An exception handler that sends the call back to the fetch step.
scrape_failed_refetch(r) ==
    /\ Goto("fetch", r)
    /\ UNCHANGED <<attempt, last_error, raw_data>>

\* the `except Exception` of scrape: the error is stored in the result and
\* the call ends
scrape_failed(r) == Return(r)

parse ==
    /\ pc = "parse"
    /\ UNCHANGED nonScraperVars
    /\ \E p \in parse_raw(raw_data.type) :
        /\ calls' = Bump(calls, "parse")
        /\ df' = p.df
        /\ IF p.raised # NULL
           THEN scrape_failed([result EXCEPT !.error = p.raised])
           ELSE IF no_data(p.df)
           THEN Return(no_data_result(result))
           ELSE /\ Goto("validate", result)
                /\ UNCHANGED <<attempt, last_error, raw_data>>
        /\ UNCHANGED <<call, max_retries, _robots_decision, _discovery_result,
                       err_types, page_loads, scrapes>>

(***************************************************************************)
(* BaseScraper.validate and the end of scrape (steps 4 and 5): the         *)
(* warnings are attached and the result is set to success.                 *)
(***************************************************************************)
\* A result that counts as a success only when validation is clean.
set_result_strict(r, d, warnings) ==
    [r EXCEPT !.validation_warnings = warnings, !.success = (warnings = 0),
              !.error = IF warnings = 0 THEN NULL ELSE [text |-> "Validation failed"],
              !.data = d]

\* the result once validate has returned `warnings` warnings
set_result(r, d, warnings) ==
    [r EXCEPT !.validation_warnings = warnings, !.success = TRUE, !.data = d]

validate ==
    /\ pc = "validate"
    /\ UNCHANGED nonScraperVars
    /\ \E warnings \in 0..MaxWarnings :
        /\ calls' = Bump(calls, "validate")
        /\ Return(set_result(result, df, warnings))
        /\ UNCHANGED <<call, max_retries, _robots_decision, _discovery_result,
                       err_types, page_loads, scrapes, df>>

(***************************************************************************)
(* UniversalScraper.scrape_with_discovery: discovery first, then the       *)
(* standard scrape.  An exception of discovery is not caught here: the     *)
(* call raises and returns no result.                                      *)
(***************************************************************************)
NoSourcesDiscovered == [text |-> "No data sources discovered"]

scrape_with_discovery ==
    \E url \in URLs, override_robots \in BOOLEAN, save_raw \in BOOLEAN,
       dk \in DiscoveryOutcomes :
        /\ StartCall("scrape_with_discovery", url, override_robots, save_raw)
        /\ _discovery_result' = discover_data_sources(_discovery_result, url, dk)
        /\ page_loads' = IF dk # "raises"
                         THEN [page_loads EXCEPT ![url] = @ + 1]
                         ELSE page_loads
        /\ IF dk = "raises"
           THEN /\ returned' = "raised"
                /\ result' = NULL
                /\ pc' = "idle"
                /\ UNCHANGED <<attempt, last_error, raw_data>>
           ELSE IF ~has_sources(dk)
           THEN Return([NewResult EXCEPT !.error = NoSourcesDiscovered])
           ELSE /\ Goto("compliance", NewResult)
                /\ UNCHANGED <<attempt, last_error, raw_data>>
        /\ UNCHANGED <<max_retries, _robots_decision>>

NextScraper ==
    \/ scrape
    \/ scrape_with_discovery
    \/ check_compliance
    \/ _retry_operation
    \/ _retry_exhausted
    \/ save_raw_response
    \/ parse
    \/ validate

(***************************************************************************)
(* NormalizedDataPoint.  A point is its id, its metric, its category and   *)
(* its value; the id stands for {source}_{asset}_{metric}_{timestamp}, so  *)
(* that points of one id share metric and category and differ in value.    *)
(***************************************************************************)
PointIds == {"p1", "p2", "p3"}

MetricOf(id) ==
    CASE id = "p1" -> "spot_volume_24h"
      [] id = "p2" -> "open_interest"
      [] id = "p3" -> "btc_price"

\* the category the transformer gives the point (CoinglassTransformer)
CategoryOf(id) ==
    CASE id = "p1" -> "volume"
      [] id = "p2" -> "derivatives"
      [] id = "p3" -> "market"

NormalizedDataPoint(id, value) ==
    [id |-> id, metric |-> MetricOf(id), category |-> CategoryOf(id), value |-> value]

\* the values two points of one id can differ in
Values == {1, 2}

Points == { NormalizedDataPoint(id, value) : id \in PointIds, value \in Values }

(***************************************************************************)
(* DataWarehouse.  self._data is the sequence of the stored rows; a row is *)
(* the point's to_dict().                                                  *)
(***************************************************************************)
Callers == {"c1", "c2"}

InitWarehouse ==
    /\ _data = <<>>
    /\ inserts = 0
    /\ first_value = [id \in PointIds |-> 0]
    /\ normalization = NULL
    /\ produced = <<>>
    /\ caller_pc = [c \in Callers |-> "idle"]
    /\ caller_point = [c \in Callers |-> NULL]
    /\ caller_rows = [c \in Callers |-> <<>>]
    /\ finished = {}

\* self._data['id'].values
StoredIds(data) == { data[i].id : i \in 1..Len(data) }

\* `self._data is None or self._data.empty`
is_empty(data) == Len(data) = 0

\* `point.id not in self._data['id'].values`, negated
is_duplicate(data, point) == point.id \in StoredIds(data)

\* An insert that replaces the stored record of the id (last writer wins).
add_data_point_last_wins(data, point) ==
    IF point.id \in StoredIds(data)
    THEN [i \in 1..Len(data) |-> IF data[i].id = point.id THEN point ELSE data[i]]
    ELSE Append(data, point)

\* DataWarehouse.add_data_point, run without interruption: self._data afterwards
add_data_point(data, point) ==
    IF is_empty(data) THEN <<point>>
    ELSE IF ~is_duplicate(data, point) THEN Append(data, point)
    ELSE data

\* DataWarehouse.add_data_points: add_data_point for each point in order
RECURSIVE add_data_points(_, _)
add_data_points(data, points) ==
    IF points = <<>> THEN data
    ELSE add_data_points(add_data_point(data, Head(points)), Tail(points))

\* first_value after the points were inserted in order
RECURSIVE FirstValues(_, _)
FirstValues(first, points) ==
    IF points = <<>> THEN first
    ELSE FirstValues(IF first[Head(points).id] = 0
                     THEN [first EXCEPT ![Head(points).id] = Head(points).value]
                     ELSE first,
                     Tail(points))

\* One call of add_data_point(point) by a single caller.
insert ==
    \E point \in Points :
        /\ inserts < MaxInserts
        /\ UNCHANGED nonWarehouseVars
        /\ inserts' = inserts + 1
        /\ _data' = add_data_point(_data, point)
        /\ first_value' = FirstValues(first_value, <<point>>)
        /\ finished' = finished \cup {point.id}
        /\ UNCHANGED <<normalization, produced, caller_pc, caller_point, caller_rows>>

(***************************************************************************)
(* MetricCategoryMapper.get_metrics_for_categories, for the assets of      *)
(* ASSET_SPECIFIC_METRICS.                                                 *)
(***************************************************************************)
CATEGORY_METRICS(category) ==
    CASE category = "volume" ->
            {"spot_volume_24h", "futures_volume_24h", "volume_7dma",
             "exchange_volume_24h_total", "btc_volume_7dma", "eth_volume_7dma",
             "sol_volume"}
      [] category = "liquidations" ->
            {"liquidations_24h_total", "liquidations_24h_long",
             "liquidations_24h_short", "liquidations_24h"}
      [] category = "derivatives" ->
            {"open_interest", "futures_oi_all_exchanges", "futures_oi", "options_oi",
             "cme_btc_oi", "binance_btc_oi", "btc_options_calls_oi",
             "btc_options_puts_oi"}
      [] category = "flows" ->
            {"net_inflow_24h", "net_inflow_5min", "net_inflow_1h", "net_inflow_4h",
             "net_inflow_12h", "spot_inflow", "spot_outflow"}
      [] category = "market" ->
            {"btc_price", "eth_price", "sol_price", "market_cap", "price"}
      [] category = "trust" ->
            {"avg_trust_score", "trust_score", "trust_rank"}
      [] category = "staking" ->
            {"total_eth_deposited", "total_validators",
             "distinct_depositor_addresses", "staking_deposits", "validators"}

ASSET_INCLUDE(asset) ==
    CASE asset = "BTC" ->
            {"btc_price", "btc_volume_7dma", "btc_liquidations_24h", "cme_btc_oi",
             "binance_btc_oi", "btc_options_calls_oi", "btc_options_puts_oi"}
      [] asset = "ETH" ->
            {"eth_price", "eth_volume_7dma", "eth_liquidations_24h",
             "total_eth_deposited", "total_validators", "distinct_depositor_addresses"}
      [] asset = "SOL" -> {"sol_price", "sol_volume"}
      [] asset = "ALL" -> {}

ASSET_EXCLUDE(asset) ==
    CASE asset = "BTC" -> {"eth_price", "total_eth_deposited", "total_validators"}
      [] asset = "ETH" -> {"btc_price", "btc_volume_7dma", "btc_liquidations_24h"}
      [] asset = "SOL" -> {"btc_price", "eth_price", "total_eth_deposited"}
      [] asset = "ALL" -> {}

get_metrics_for_categories(categories, asset) ==
    IF categories = {} THEN {}
    ELSE ((UNION { CATEGORY_METRICS(c) : c \in categories })
            \cup ASSET_INCLUDE(asset)) \ ASSET_EXCLUDE(asset)

(***************************************************************************)
(* RealtimeNormalizer.fetch_and_normalize(asset, categories).  The         *)
(* environment decides what scraping yields (an exception, nothing, raw    *)
(* data), which points the transformers produce from raw data and whether  *)
(* the validation reports pass.                                            *)
(***************************************************************************)
RECURSIVE SeqsUpTo(_, _)
SeqsUpTo(S, n) ==
    IF n = 0 THEN { <<>> }
    ELSE LET shorter == SeqsUpTo(S, n - 1)
         IN  shorter \cup { Append(q, x) : q \in shorter, x \in S }

\* what the transformers produce in one call: up to MaxPoints points, in any
\* order, ids repeated or not, all carrying the values scraped in that call
Batches ==
    UNION { { [i \in 1..Len(ids) |-> NormalizedDataPoint(ids[i], value)] :
                ids \in SeqsUpTo(PointIds, MaxPoints) } : value \in Values }

\* the categories a caller asks for: none, or some of these
RequestedCategories == SUBSET {"volume", "derivatives"}

\* [p for p in normalized_points if p.metric in target_metrics], kept as the
\* view when it is shorter than the full list
filtered_view(points, categories, asset) ==
    IF categories = {} THEN points
    ELSE SelectSeq(points,
                   LAMBDA p : p.metric \in get_metrics_for_categories(categories, asset))

\* Storing the view instead of everything that was produced.
points_to_store_view(all_points, view) == view

\* what step 5 hands to _store_data: all_normalized_points
points_to_store(all_points, view) == all_points

NormalizationResult(success, asset, categories, points, reports, added, errors, warnings) ==
    [success |-> success, asset |-> asset, categories |-> categories,
     normalized_points |-> points, validation_reports |-> reports, points_added |-> added,
     errors |-> errors, warnings |-> warnings]

\* ValidationReport of _validate_data: whether it passed (no errors) and
\* whether it carries warnings
ValidationReport(passed, warnings) == [passed |-> passed, warnings |-> warnings]

ValidationReports == { ValidationReport(passed, warnings) :
                          passed \in BOOLEAN, warnings \in BOOLEAN }

\* step 3: errors.extend(report.errors) if the report failed,
\* warnings.extend(report.warnings)
collect_errors(report) ==
    [errors |-> IF report.passed THEN {} ELSE {"validation error"},
     warnings |-> IF report.warnings THEN {"validation warning"} ELSE {}]

fetch_and_normalize ==
    \E asset \in {"BTC", "ALL"}, categories \in RequestedCategories,
       scraped \in {"raises", "nothing", "data"} :
        \E points \in (IF scraped = "data" THEN Batches ELSE { <<>> }),
           report \in ValidationReports :
            /\ inserts + Len(points) <= MaxInserts
            /\ points = <<>> => report = ValidationReport(TRUE, FALSE)
            /\ produced' = points
            /\ IF scraped = "raises"
               THEN /\ normalization' = NormalizationResult(FALSE, asset, categories, <<>>, NULL, 0,
                                            {"Normalization failed"}, {})
                    /\ UNCHANGED <<_data, inserts, first_value, finished>>
               ELSE IF scraped = "nothing"
               THEN /\ normalization' = NormalizationResult(FALSE, asset, categories, <<>>, NULL, 0,
                                            {"No data scraped for asset"}, {})
                    /\ UNCHANGED <<_data, inserts, first_value, finished>>
               ELSE IF points = <<>>
               THEN /\ normalization' = NormalizationResult(FALSE, asset, categories, <<>>, NULL, 0,
                                            {"No normalized data points created"}, {})
                    /\ UNCHANGED <<_data, inserts, first_value, finished>>
               ELSE LET view == filtered_view(points, categories, asset)
                        stored == points_to_store(points, view)
                        collected == collect_errors(report)
                    IN  /\ _data' = add_data_points(_data, stored)
                        /\ inserts' = inserts + Len(stored)
                        /\ first_value' = FirstValues(first_value, stored)
                        /\ finished' = finished \cup { stored[i].id : i \in 1..Len(stored) }
                        /\ normalization' =
                              NormalizationResult(TRUE, asset, categories, view, report,
                                  Len(stored),
                                  collected.errors,
                                  collected.warnings \cup
                                  (IF view = <<>>
                                   THEN {"No normalized metrics matched the selected categories"}
                                   ELSE {}))
            /\ UNCHANGED <<caller_pc, caller_point, caller_rows>>
            /\ UNCHANGED nonWarehouseVars

NextWarehouse == insert \/ fetch_and_normalize

(***************************************************************************)
(* DataWarehouse.add_data_point called by several callers at once.  The    *)
(* method takes no lock, so another caller can run between its reads of    *)
(* self._data and its write: the emptiness test (line 77), the duplicate   *)
(* test (line 81), the concatenation (line 92, right-hand side) and the    *)
(* assignment to self._data are separate steps.                            *)
(***************************************************************************)
call_add_data_point(c) ==
    \E point \in Points :
        /\ caller_pc[c] = "idle"
        /\ UNCHANGED nonWarehouseVars
        /\ inserts < MaxInserts
        /\ inserts' = inserts + 1
        /\ caller_point' = [caller_point EXCEPT ![c] = point]
        /\ caller_pc' = [caller_pc EXCEPT ![c] = "check_empty"]
        /\ first_value' = FirstValues(first_value, <<point>>)
        /\ UNCHANGED <<_data, normalization, produced, caller_rows, finished>>

check_empty(c) ==
    /\ caller_pc[c] = "check_empty"
    /\ UNCHANGED nonWarehouseVars
    /\ caller_pc' = [caller_pc EXCEPT ![c] = IF is_empty(_data) THEN "assign_first"
                                             ELSE "check_duplicate"]
    /\ UNCHANGED <<_data, inserts, first_value, normalization, produced,
                   caller_point, caller_rows, finished>>

assign_first(c) ==
    /\ caller_pc[c] = "assign_first"
    /\ UNCHANGED nonWarehouseVars
    /\ _data' = <<caller_point[c]>>
    /\ caller_pc' = [caller_pc EXCEPT ![c] = "idle"]
    /\ finished' = finished \cup {caller_point[c].id}
    /\ UNCHANGED <<inserts, first_value, normalization, produced, caller_point,
                   caller_rows>>

check_duplicate(c) ==
    /\ caller_pc[c] = "check_duplicate"
    /\ UNCHANGED nonWarehouseVars
    /\ IF is_duplicate(_data, caller_point[c])
       THEN /\ caller_pc' = [caller_pc EXCEPT ![c] = "idle"]
            /\ finished' = finished \cup {caller_point[c].id}
       ELSE /\ caller_pc' = [caller_pc EXCEPT ![c] = "concat"]
            /\ UNCHANGED finished
    /\ UNCHANGED <<_data, inserts, first_value, normalization, produced,
                   caller_point, caller_rows>>

concat(c) ==
    /\ caller_pc[c] = "concat"
    /\ UNCHANGED nonWarehouseVars
    /\ caller_rows' = [caller_rows EXCEPT ![c] = Append(_data, caller_point[c])]
    /\ caller_pc' = [caller_pc EXCEPT ![c] = "store"]
    /\ UNCHANGED <<_data, inserts, first_value, normalization, produced,
                   caller_point, finished>>

store(c) ==
    /\ caller_pc[c] = "store"
    /\ UNCHANGED nonWarehouseVars
    /\ _data' = caller_rows[c]
    /\ caller_rows' = [caller_rows EXCEPT ![c] = <<>>]
    /\ caller_pc' = [caller_pc EXCEPT ![c] = "idle"]
    /\ finished' = finished \cup {caller_point[c].id}
    /\ UNCHANGED <<inserts, first_value, normalization, produced, caller_point>>

NextConcurrent ==
    \E c \in Callers :
        \/ call_add_data_point(c)
        \/ check_empty(c)
        \/ assign_first(c)
        \/ check_duplicate(c)
        \/ concat(c)
        \/ store(c)

(***************************************************************************)
(* RealtimeScraper.scrape_asset_data(asset, site_ids): the sites of the    *)
(* list are scraped one after the other by scrape_single_site, which calls *)
(* FrontendAPI.scrape_configured_site.  The environment decides how that   *)
(* call ends for each site.  The caller, fetch_and_normalize, reports the  *)
(* keys of the returned dictionary as sources_scraped and its local list   *)
(* sources_failed, which it never appends to.                              *)
(***************************************************************************)
Sites == {"s1", "s2", "s3"}

\* the lists of distinct sites
SiteLists ==
    { q \in SeqsUpTo(Sites, Cardinality(Sites)) :
        \A i, j \in 1..Len(q) : q[i] = q[j] => i = j }

\* how scrape_configured_site ends: a result with data, a successful result
\* whose table is empty, a failed result carrying an error, an exception
SiteOutcomes == {"data", "empty", "failed_result", "raises"}

FailureOutcomes == {"failed_result", "raises"}

InitBatch ==
    /\ batch_pc = "idle"
    /\ site_ids = <<>>
    /\ site_index = 0
    /\ attempts = <<>>
    /\ outcomes = <<>>
    /\ results = <<>>
    /\ batch_outcome = NULL

\* what the caller reports (NormalizationResult.sources_scraped, sources_failed)
BatchOutcome(scraped) == [sources_scraped |-> scraped, sources_failed |-> <<>>]

\* entry of scrape_asset_data: an empty list returns {} at once
scrape_asset_data ==
    \E ids \in SiteLists :
        /\ batch_pc = "idle"
        /\ site_ids' = ids
        /\ site_index' = 1
        /\ attempts' = <<>>
        /\ outcomes' = <<>>
        /\ results' = <<>>
        /\ IF ids = <<>>
           THEN /\ batch_pc' = "returned"
                /\ batch_outcome' = BatchOutcome(<<>>)
           ELSE /\ batch_pc' = "loop"
                /\ batch_outcome' = NULL
        /\ UNCHANGED nonBatchVars

\* A loop that stops at the first site that fails.
next_site_index_abort(index, outcome, n) ==
    IF outcome \in FailureOutcomes THEN n + 1 ELSE index + 1

\* `for site_id in site_ids`: the loop goes on to the next site whatever
\* happened (`continue` in the except clause)
next_site_index(index, outcome, n) == index + 1

\* scrape_single_site returns the table only for a successful result with a
\* non-empty table, and None otherwise, exceptions included
scrape_single_site(outcome) == IF outcome = "data" THEN DataFrame(FALSE) ELSE NULL

\* one iteration of the loop
scrape_site ==
    /\ batch_pc = "loop"
    /\ site_index <= Len(site_ids)
    /\ \E outcome \in SiteOutcomes :
        LET site_id == site_ids[site_index]
            table == scrape_single_site(outcome)
        IN  /\ attempts' = Append(attempts, site_id)
            /\ outcomes' = Append(outcomes, outcome)
            /\ results' = IF table # NULL /\ ~table.empty
                          THEN Append(results, site_id) ELSE results
            /\ site_index' = next_site_index(site_index, outcome, Len(site_ids))
    /\ UNCHANGED <<batch_pc, site_ids, batch_outcome>>
    /\ UNCHANGED nonBatchVars

\* the loop is over: the dictionary of the successful sites is returned
return_results ==
    /\ batch_pc = "loop"
    /\ site_index > Len(site_ids)
    /\ batch_pc' = "returned"
    /\ batch_outcome' = BatchOutcome(results)
    /\ UNCHANGED <<site_ids, site_index, attempts, outcomes, results>>
    /\ UNCHANGED nonBatchVars

NextBatch == scrape_asset_data \/ scrape_site \/ return_results

(***************************************************************************)
(* utils/robots.py.  Strings that the code inspects character by character *)
(* (hosts, paths, rule patterns) are sequences of characters.              *)
(***************************************************************************)
\* s.startswith(p)
StartsWith(s, p) == Len(p) <= Len(s) /\ SubSeq(s, 1, Len(p)) = p

\* p in s
Contains(s, p) == \E i \in 0..(Len(s) - Len(p)) : SubSeq(s, i + 1, i + Len(p)) = p

Str_api_slash == <<"/", "a", "p", "i", "/">>
Str_slash_api == <<"/", "a", "p", "i">>
Str_api_dot == <<"a", "p", "i", ".">>

Path_private == <<"/", "a", "p", "i", "/", "p", "r", "i", "v", "a", "t", "e">>
Path_public == <<"/", "a", "p", "i", "/", "p", "u", "b", "l", "i", "c", "/">>
Path_public_x == <<"/", "a", "p", "i", "/", "p", "u", "b", "l", "i", "c", "/", "x">>

Hosts ==
    { <<"x", ".", "i", "o">>,                    \* x.io
      <<"a", "p", "i", ".", "x", ".", "i", "o">>, \* api.x.io
      <<"x", "a", "p", "i", ".", "i", "o">> }     \* xapi.io

Paths ==
    { <<>>,                                      \* no path
      <<"/">>,
      <<"/", "x">>,
      <<"/", "x", "/", "y">>,
      Str_slash_api,                             \* /api
      <<"/", "a", "p", "i", "x">>,               \* /apix
      Path_private,                              \* /api/private
      Path_public_x }                            \* /api/public/x

RobotsUrls == { [host |-> h, path |-> p] : h \in Hosts, p \in Paths }

\* `parsed.path or "/"`
path_or_root(path) == IF path = <<>> THEN <<"/">> ELSE path

\* `"/api/" in path or path.startswith("/api") or "api." in parsed.netloc`
is_api_endpoint(url) ==
    \/ Contains(path_or_root(url.path), Str_api_slash)
    \/ StartsWith(path_or_root(url.path), Str_slash_api)
    \/ Contains(url.host, Str_api_dot)

(***************************************************************************)
(* RobotsParser.  A robots.txt is the sequence of its directive lines.     *)
(***************************************************************************)
UserAgent == "DataFetchBot/1.0"

Line(directive, value) == [directive |-> directive, value |-> value]

NoRules == [allow |-> <<>>, disallow |-> <<>>]

\* RobotsParser._parse: the rules per user agent; rules and agent are the
\* dictionary built so far and the agent of the current block
RECURSIVE _parse(_, _, _)
_parse(lines, rules, agent) ==
    IF lines = <<>> THEN rules
    ELSE LET line == Head(lines)
         IN  IF line.directive = "user-agent"
             THEN _parse(Tail(lines),
                         IF line.value \in DOMAIN rules THEN rules
                         ELSE [a \in DOMAIN rules \cup {line.value} |->
                                 IF a \in DOMAIN rules THEN rules[a] ELSE NoRules],
                         line.value)
             ELSE IF line.directive = "disallow"
             THEN _parse(Tail(lines),
                         [rules EXCEPT ![agent].disallow = Append(@, line.value)], agent)
             ELSE IF line.directive = "allow"
             THEN _parse(Tail(lines),
                         [rules EXCEPT ![agent].allow = Append(@, line.value)], agent)
             ELSE _parse(Tail(lines), rules, agent)

RobotsParser(robots_txt) == _parse(robots_txt, [a \in {"*"} |-> NoRules], "*")

\* re.match of the pattern with every * turned into .* and a final $ kept as
\* the end anchor
RECURSIVE regex_match(_, _)
regex_match(path, pattern) ==
    IF pattern = <<>> THEN TRUE
    ELSE IF pattern = <<"$">> THEN path = <<>>
    ELSE IF Head(pattern) = "*"
    THEN \E k \in 0..Len(path) :
            regex_match(SubSeq(path, k + 1, Len(path)), Tail(pattern))
    ELSE /\ path # <<>>
         /\ Head(path) = Head(pattern)
         /\ regex_match(Tail(path), Tail(pattern))

\* RobotsParser._path_matches
_path_matches(path, pattern) ==
    IF pattern = <<>> THEN FALSE
    ELSE IF \E i \in 1..Len(pattern) : pattern[i] = "*"
    THEN regex_match(path, pattern)
    ELSE StartsWith(path, pattern)

\* `self.rules.get(self.user_agent, self.rules.get("*", {}))`
agent_rules(rules, agent) == IF agent \in DOMAIN rules THEN rules[agent] ELSE rules["*"]

AnyMatch(path, patterns) ==
    \E i \in 1..Len(patterns) : _path_matches(path, patterns[i])

\* A parser that looks at the Disallow rules first.
is_allowed_disallow_first(rules, agent, path) ==
    LET block == agent_rules(rules, agent)
    IN  IF AnyMatch(path, block.disallow) THEN FALSE ELSE TRUE

\* RobotsParser.is_allowed
is_allowed(rules, agent, path) ==
    LET block == agent_rules(rules, agent)
    IN  IF AnyMatch(path, block.allow) THEN TRUE
        ELSE IF AnyMatch(path, block.disallow) THEN FALSE
        ELSE TRUE

(***************************************************************************)
(* The robots.txt files and the answers to the request for one.            *)
(***************************************************************************)
RobotsFiles ==
    { <<>>,                                       \* an empty body
      << Line("user-agent", "*"), Line("disallow", Str_api_slash),
         Line("allow", Path_public) >>,
      << Line("user-agent", "*"), Line("disallow", <<"/", "x">>),
         Line("allow", <<"/", "x", "/", "y">>) >>,
      << Line("user-agent", "*"), Line("disallow", <<"/">>) >>,
      << Line("user-agent", UserAgent), Line("disallow", <<"/", "x">>),
         Line("user-agent", "*"), Line("allow", <<"/", "x">>) >>,
      << Line("user-agent", "*"), Line("disallow", <<"/", "*", "y">>),
         Line("sitemap", <<"/", "x">>) >>,
      << Line("user-agent", "*"), Line("disallow", <<>>) >> }

\* a response with a status code, or a requests exception
FailureKinds == {"500", "timeout", "connection_error", "request_error"}

RobotsResponses ==
    { [kind |-> "200", content |-> f] : f \in RobotsFiles }
    \cup { [kind |-> k, content |-> <<>>] : k \in FailureKinds \cup {"404"} }

\* A fetch that takes every answer without a robots.txt for "no robots.txt".
fetch_robots_txt_lenient(response) ==
    IF response.kind = "200"
    THEN [robots_txt |-> response.content, error |-> "none"]
    ELSE [robots_txt |-> <<>>, error |-> "none"]

\* fetch_robots_txt: (robots_txt_content, error_message)
fetch_robots_txt(response) ==
    IF response.kind = "200" THEN [robots_txt |-> response.content, error |-> "none"]
    ELSE IF response.kind = "404" THEN [robots_txt |-> <<>>, error |-> "none"]
    ELSE IF response.kind = "500" THEN [robots_txt |-> <<>>, error |-> "HTTP 500"]
    ELSE IF response.kind = "timeout"
    THEN [robots_txt |-> <<>>, error |-> "Request timed out"]
    ELSE IF response.kind = "connection_error"
    THEN [robots_txt |-> <<>>, error |-> "Connection error"]
    ELSE [robots_txt |-> <<>>, error |-> "Request error"]

RobotsResult(url, fetched, parsed, status) ==
    [url |-> url, fetched |-> fetched, parsed |-> parsed, status |-> status]

\* the decision once robots.txt was requested: an error gives UNKNOWN, an
\* empty text ALLOWED, and any other text is parsed and asked about the path
evaluate_robots(url, response) ==
    LET fetched == fetch_robots_txt(response)
    IN  IF fetched.error # "none" THEN RobotsResult(url, TRUE, FALSE, "UNKNOWN")
        ELSE IF fetched.robots_txt = <<>> THEN RobotsResult(url, TRUE, FALSE, "ALLOWED")
        ELSE RobotsResult(url, TRUE, TRUE,
                 IF is_allowed(RobotsParser(fetched.robots_txt), UserAgent,
                               path_or_root(url.path))
                 THEN "ALLOWED" ELSE "DISALLOWED")

InitRobots ==
    /\ robots_urls = <<>>
    /\ robots_response = NULL
    /\ robots_entry = "none"
    /\ robots_results = <<>>

\* the lists of one or two URLs
RobotsUrlLists ==
    { <<u>> : u \in RobotsUrls } \cup { <<u, v>> : u \in RobotsUrls, v \in RobotsUrls }

\* the gate before it is called, for every argument and every answer
InitRobotsInputs ==
    /\ robots_urls \in RobotsUrlLists
    /\ robots_response \in RobotsResponses
    /\ robots_entry = "none"
    /\ robots_results = <<>>

\* check_robots_permission(url)
check_robots_permission ==
    /\ robots_entry = "none"
    /\ Len(robots_urls) = 1
    /\ robots_entry' = "check_robots_permission"
    /\ robots_results' =
          << IF is_api_endpoint(robots_urls[1])
             THEN RobotsResult(robots_urls[1], FALSE, FALSE, "ALLOWED")
             ELSE evaluate_robots(robots_urls[1], robots_response) >>
    /\ UNCHANGED <<robots_urls, robots_response>>
    /\ UNCHANGED nonRobotsVars

\* check_multiple_urls(urls): every URL is evaluated against the robots.txt
\* of its domain, fetched once per domain; the domains of one call answer
\* alike
check_multiple_urls ==
    /\ robots_entry = "none"
    /\ robots_entry' = "check_multiple_urls"
    /\ robots_results' = [i \in 1..Len(robots_urls) |->
                            evaluate_robots(robots_urls[i], robots_response)]
    /\ UNCHANGED <<robots_urls, robots_response>>
    /\ UNCHANGED nonRobotsVars

NextRobots == check_robots_permission \/ check_multiple_urls

(***************************************************************************)
(* The network inspector (detector/network_inspector.py).  A score is      *)
(* counted in half points, the smallest step of _calculate_score, so the   *)
(* returned confidence score/10.0 is a number of twentieths: Scale stands  *)
(* for 1.0 and MinScore for the 0.2 threshold of analyze_requests.         *)
(***************************************************************************)
Scale == 20

MinScore == 4

DATA_KEYWORDS ==
    {"api", "chart", "data", "series", "history", "export", "json", "csv",
     "stats", "metrics", "prices", "volume", "market", "ticker", "quote",
     "ohlc", "candle"}

TRACKING_KEYWORDS ==
    {"analytics", "tracking", "pixel", "beacon", "collect", "facebook",
     "google-analytics", "clarity", "hotjar", "segment", "amplitude",
     "mixpanel", "gtm", "recaptcha", "cookie", "consent", "ads",
     "advertising"}

\* A URL is the set of keywords its lower-cased text contains.
RequestUrls ==
    {{}, {"api"}, {"api", "chart", "data"}, DATA_KEYWORDS, {"tracking"},
     {"api", "analytics"}, TRACKING_KEYWORDS}

\* A content type is the set of the words "json" and "csv" it contains;
\* the empty set is a missing content type or one with neither word.
ContentTypes == SUBSET {"json", "csv"}

\* content_length; 0 stands for a missing header as well.
ContentLengths == {0, 1000, 10000, 10001}

\* A response body: absent, or present with the number of date patterns it
\* matches and whether it holds an array of objects.
Bodies ==
    {[present |-> FALSE, date_matches |-> 0, has_object_array |-> FALSE]}
    \cup [present : {TRUE}, date_matches : {0, 2}, has_object_array : BOOLEAN]

RequestDomains == {"x.io", "cdn.io"}

\* netloc of target_url; "" when target_url is None.
TargetDomains == {"", "x.io"}

NetworkRequest(url, domain, status, content_type, content_length, body) ==
    [url |-> url, domain |-> domain, status |-> status,
     content_type |-> content_type, content_length |-> content_length,
     response_body |-> body]

Requests ==
    {NetworkRequest(u, d, st, ct, cl, b) :
        u \in RequestUrls, d \in RequestDomains, st \in {200, 404},
        ct \in ContentTypes, cl \in ContentLengths, b \in Bodies}

is_json(request) == "json" \in request.content_type

is_csv(request) == "csv" \in request.content_type

_looks_like_timeseries(body) ==
    body.date_matches >= 1 /\ body.has_object_array

\* The points collected before the normalisation, in half points.
raw_score(request, target) ==
    4 * Cardinality(request.url \cap DATA_KEYWORDS)
    - 4 * Cardinality(request.url \cap TRACKING_KEYWORDS)
    + (IF is_json(request) THEN 2 ELSE IF is_csv(request) THEN 3 ELSE 0)
    + (IF target # "" /\ request.domain = target THEN 1 ELSE 0)
    + (IF request.content_length > 1000 THEN 1 ELSE 0)
    + (IF request.content_length > 10000 THEN 1 ELSE 0)
    + (IF request.response_body.present
          /\ _looks_like_timeseries(request.response_body) THEN 6 ELSE 0)

Min(a, b) == IF a <= b THEN a ELSE b

Max(a, b) == IF a >= b THEN a ELSE b

normalize_unclamped(score) == score

\* min(max(score / 10.0, 0.0), 1.0)
normalize(score) == Min(Max(score, 0), Scale)

_calculate_score(request, target) == normalize(raw_score(request, target))

\* The requests the page loader hands to analyze_requests: every status,
\* every content type, scores on both sides of the threshold.
CapturedRequests ==
    {NetworkRequest(u, "x.io", st, ct, 0, b) :
        u \in {{}, {"api"}, {"api", "analytics"}, DATA_KEYWORDS},
        st \in {200, 404}, ct \in ContentTypes,
        b \in {[present |-> FALSE, date_matches |-> 0,
                 has_object_array |-> FALSE],
                [present |-> TRUE, date_matches |-> 2,
                 has_object_array |-> TRUE]}}

skipped_unless_status_200(request, score) == request.status # 200

\* The three tests of the loop that end a turn with "continue".
skipped(request, score) ==
    \/ request.status # 200
    \/ ~is_json(request) /\ ~is_csv(request)
    \/ score < MinScore

CandidateEndpoint(request, score) ==
    [request |-> request, confidence_score |-> score]

\* Where a candidate goes in a list sorted by descending score: behind
\* every candidate whose score is at least its own.
RECURSIVE insert_candidate(_, _)
insert_candidate(candidate, sorted) ==
    IF sorted = <<>> THEN <<candidate>>
    ELSE IF Head(sorted).confidence_score >= candidate.confidence_score
         THEN <<Head(sorted)>> \o insert_candidate(candidate, Tail(sorted))
         ELSE <<candidate>> \o sorted

RECURSIVE sort_from(_, _)
sort_from(list, sorted) ==
    IF list = <<>> THEN sorted
    ELSE sort_from(Tail(list), insert_candidate(Head(list), sorted))

sort_by_confidence_arrival_order(list) == list

\* candidates.sort(key=lambda x: x.confidence_score, reverse=True): a stable
\* sort, candidates of equal score keep their arrival order.
sort_by_confidence(list) == sort_from(list, <<>>)

InitInspector ==
    /\ score_request = NULL
    /\ score_target = ""
    /\ score_result = <<>>
    /\ inspector_pc = "idle"
    /\ target_domain = ""
    /\ seen = 0
    /\ captured = <<>>
    /\ candidates = <<>>

\* One captured response and one target domain to score.
InitScoreInputs ==
    /\ score_request \in Requests
    /\ score_target \in TargetDomains
    /\ score_result = <<>>
    /\ inspector_pc = "idle"
    /\ target_domain = ""
    /\ seen = 0
    /\ captured = <<>>
    /\ candidates = <<>>

\* A call of _calculate_score on the drawn request.
calculate_score ==
    /\ score_request # NULL
    /\ score_result = <<>>
    /\ score_result' = <<_calculate_score(score_request, score_target)>>
    /\ UNCHANGED <<score_request, score_target, inspector_pc, target_domain,
                   seen, captured, candidates>>
    /\ UNCHANGED nonInspectorVars

NextScore == calculate_score

\* analyze_requests is entered: the candidate list is empty and the target
\* domain is taken from target_url.
analyze_requests ==
    /\ inspector_pc = "idle"
    /\ \E t \in TargetDomains : target_domain' = t
    /\ inspector_pc' = "loop"
    /\ seen' = 0
    /\ captured' = <<>>
    /\ candidates' = <<>>
    /\ UNCHANGED <<score_request, score_target, score_result>>
    /\ UNCHANGED nonInspectorVars

\* One turn of the loop over the captured requests, in arrival order.
inspect_request ==
    /\ inspector_pc = "loop"
    /\ seen < MaxRequests
    /\ seen' = seen + 1
    /\ \E request \in CapturedRequests :
        LET score == _calculate_score(request, target_domain) IN
        /\ captured' = Append(captured, request)
        /\ candidates' =
            IF skipped(request, score) THEN candidates
            ELSE Append(candidates, CandidateEndpoint(seen + 1, score))
    /\ UNCHANGED <<score_request, score_target, score_result, inspector_pc,
                   target_domain>>
    /\ UNCHANGED nonInspectorVars

\* The loop is over: the list is sorted and returned.
return_candidates ==
    /\ inspector_pc = "loop"
    /\ candidates' = sort_by_confidence(candidates)
    /\ inspector_pc' = "returned"
    /\ UNCHANGED <<score_request, score_target, score_result, target_domain,
                   seen, captured>>
    /\ UNCHANGED nonInspectorVars

NextInspector == analyze_requests \/ inspect_request \/ return_candidates

(***************************************************************************)
(* BaseScraper._retry_operation called on an arbitrary operation: what the *)
(* operation does on each attempt is the environment's choice.  Times are  *)
(* counted in tenths of a second.                                          *)
(***************************************************************************)
\* retry_delay: float = 2.0
RetryDelay == 20

\* The exceptions an operation raises: those of the browser and of a direct
\* request, and ValueErrors with and without a status in the message.
OperationErrors ==
    BrowserErrors \cup RequestErrors
    \cup { [type |-> "ValueError", msg |-> {}],
           [type |-> "ValueError", msg |-> {"401"}] }

RECURSIVE Pow(_, _)
Pow(k, a) == IF a = 0 THEN 1 ELSE k * Pow(k, a - 1)

\* the factor of the exponential backoff of an error class
BackoffFactor(error_type) ==
    IF error_type = "rate_limit" THEN 3
    ELSE IF error_type = "bot_detection" THEN 4
    ELSE 2

\* the bounds of random.uniform for an error class
JitterRange(error_type) ==
    IF error_type = "rate_limit" THEN <<50, 150>>
    ELSE IF error_type = "bot_detection" THEN <<100, 300>>
    ELSE IF error_type = "auth" THEN <<20, 50>>
    ELSE IF error_type = "network" THEN <<5, 20>>
    ELSE <<5, 15>>

\* the values random.uniform is taken to return: the two ends of the range
Jitters(error_type) ==
    {JitterRange(error_type)[1], JitterRange(error_type)[2]}

\* A backoff that doubles for every class.
_get_retry_delay_doubling(error_type, a, jitter) ==
    RetryDelay * Pow(2, a) + jitter

_get_retry_delay(error_type, a, jitter) ==
    RetryDelay * Pow(BackoffFactor(error_type), a) + jitter

\* `if last_error_type == "auth" and attempt == 0`, then
\* `if self.config and self.config.auth_config`
refreshes_session(error_type, a, has_auth_config) ==
    error_type = "auth" /\ a = 0 /\ has_auth_config

NoOutcome == [kind |-> "none", error |-> NULL]

InitRetry ==
    /\ retry_pc = "loop"
    /\ retry_max = DefaultMaxRetries
    /\ auth_config = FALSE
    /\ retry_attempt = 0
    /\ retry_last_error = NULL
    /\ retry_log = <<>>
    /\ retry_outcome = NoOutcome

\* The scraper is built with any max_retries up to the default, with or
\* without an auth configuration.
InitRetryInputs ==
    /\ retry_pc = "loop"
    /\ retry_max \in 0..DefaultMaxRetries
    /\ auth_config \in BOOLEAN
    /\ retry_attempt = 0
    /\ retry_last_error = NULL
    /\ retry_log = <<>>
    /\ retry_outcome = NoOutcome

AttemptEntry(a, error_type, slept, delay, refreshed) ==
    [attempt |-> a, error_type |-> error_type, slept |-> slept,
     delay |-> delay, refreshed |-> refreshed]

\* One iteration of `for attempt in range(self.max_retries)`: the operation
\* returns, or it raises and, when an attempt remains, the delay is slept
\* and then the session is refreshed.
retry_attempt_step ==
    /\ retry_pc = "loop"
    /\ retry_continues(retry_attempt, retry_max)
    /\ \/ /\ retry_outcome' = [kind |-> "returned", error |-> NULL]
          /\ retry_pc' = "done"
          /\ retry_log' = Append(retry_log,
                 AttemptEntry(retry_attempt, "none", 0, 0, FALSE))
          /\ UNCHANGED <<retry_attempt, retry_last_error>>
       \/ \E e \in OperationErrors :
          LET error_type == _classify_error(e) IN
          \E jitter \in Jitters(error_type) :
          /\ retry_last_error' = Exc(e.type, e.msg, retry_attempt)
          /\ retry_log' = Append(retry_log,
                 IF retry_sleeps(retry_attempt, retry_max)
                 THEN AttemptEntry(retry_attempt, error_type, 1,
                          _get_retry_delay(error_type, retry_attempt, jitter),
                          refreshes_session(error_type, retry_attempt, auth_config))
                 ELSE AttemptEntry(retry_attempt, error_type, 0, 0, FALSE))
          /\ retry_attempt' = retry_attempt + 1
          /\ UNCHANGED <<retry_pc, retry_outcome>>
    /\ UNCHANGED <<retry_max, auth_config>>
    /\ UNCHANGED nonRetryVars

\* The loop is over without a return: `raise last_error`.
retry_raise_last_error ==
    /\ retry_pc = "loop"
    /\ ~retry_continues(retry_attempt, retry_max)
    /\ retry_outcome' = [kind |-> "raised", error |-> retry_raises(retry_last_error)]
    /\ retry_pc' = "done"
    /\ UNCHANGED <<retry_max, auth_config, retry_attempt, retry_last_error,
                   retry_log>>
    /\ UNCHANGED nonRetryVars

NextRetry == retry_attempt_step \/ retry_raise_last_error

(***************************************************************************)
(* JsonExtractor (extractor/json_extractor.py).  A JSON value is its kind, *)
(* the elements of a list and the entries of an object in their order;     *)
(* an element of a list is its kind and, for an object, its keys with the  *)
(* kind of each value.  A DataFrame is its columns and its rows, a row     *)
(* being the cells it holds: column and kind of content.                   *)
(***************************************************************************)
Element(kind, fields) == [kind |-> kind, fields |-> fields]

ScalarElement == Element("scalar", {})

\* objects of a timeseries: two plain fields; a plain and a nested field
ObjectElements ==
    { Element("dict", {<<"date", "scalar">>, <<"value", "scalar">>}),
      Element("dict", {<<"date", "scalar">>, <<"meta", "dict">>}) }

JsonValue(kind, items, entries) ==
    [kind |-> kind, items |-> items, entries |-> entries]

\* the lists of the inputs: empty, of scalars, of objects
JsonLists ==
    { JsonValue("list", items, <<>>) :
        items \in {<<>>, <<ScalarElement>>, <<ScalarElement, ScalarElement>>}
                  \cup { <<o>> : o \in ObjectElements }
                  \cup { <<o1, o2>> : o1 \in ObjectElements, o2 \in ObjectElements } }

\* the values of the entries of an object
EntryValues ==
    JsonLists \cup { JsonValue("scalar", <<>>, <<>>), JsonValue("dict", <<>>, <<>>) }

EntryKeys == {"data", "series", "status"}

\* the entries of an object: distinct keys, in insertion order
DistinctKeys(keys) ==
    \A i \in 1..Len(keys) : \A j \in 1..Len(keys) : i # j => keys[i] # keys[j]

JsonObjects ==
    UNION { { JsonValue("dict", <<>>, [i \in 1..n |-> [key |-> keys[i], value |-> values[i]]]) :
                keys \in {k \in [1..n -> EntryKeys] : DistinctKeys(k)},
                values \in [1..n -> EntryValues] } : n \in 0..MaxEntries }

\* what extract is handed: an object, a list, or a bare scalar
JsonInputs == JsonObjects \cup JsonLists \cup { JsonValue("scalar", <<>>, <<>>) }

DataFrameOf(columns, rows) == [columns |-> columns, rows |-> rows]

EmptyDataFrame == DataFrameOf({}, <<>>)

\* the columns pandas derives from a list of rows
ColumnsOf(rows) ==
    UNION { { cell[1] : cell \in rows[i] } : i \in 1..Len(rows) }

\* `json.dumps(v) if isinstance(v, (dict, list)) else v`
flatten_kind(kind) == IF kind \in {"dict", "list"} THEN "json" ELSE kind

\* a dict item with its nested values dumped to JSON strings
flattened_item(element) ==
    { <<field[1], flatten_kind(field[2])>> : field \in element.fields }

is_list(value) == value.kind = "list"

\* `isinstance(value, list) and value and isinstance(value[0], dict)`
is_object_array(value) ==
    is_list(value) /\ value.items # <<>> /\ value.items[1].kind = "dict"

\* array_keys: the positions of the entries whose value is a list
array_keys(data) ==
    { i \in 1..Len(data.entries) : is_list(data.entries[i].value) }

\* `len(set(lengths)) == 1`
parallel_arrays(data) ==
    /\ array_keys(data) # {}
    /\ \A i \in array_keys(data) : \A j \in array_keys(data) :
           Len(data.entries[i].value.items) = Len(data.entries[j].value.items)

\* the test that sends _extract_data into the parallel-arrays branch
is_parallel(data) == parallel_arrays(data)

\* the first entry, in order, that holds an array of objects (0 if none)
first_object_array(data) ==
    LET found == { i \in 1..Len(data.entries) : is_object_array(data.entries[i].value) }
    IN  IF found = {} THEN 0
        ELSE CHOOSE i \in found : \A j \in found : i <= j

_extract_data(data) ==
    IF data.kind = "list"
    THEN IF data.items # <<>> /\ data.items[1].kind \in {"dict", "list"}
         THEN \* pd.DataFrame(data): the keys become the columns
              LET rows == [i \in 1..Len(data.items) |-> data.items[i].fields]
              IN  DataFrameOf(ColumnsOf(rows), rows)
         ELSE \* pd.DataFrame({"value": data})
              DataFrameOf({"value"},
                  [i \in 1..Len(data.items) |-> {<<"value", data.items[i].kind>>}])
    ELSE IF data.kind = "dict"
    THEN IF is_parallel(data)
         THEN \* each list becomes a column, its dicts dumped to strings
              LET keys == array_keys(data)
                  n == Len(data.entries[CHOOSE i \in keys : TRUE].value.items)
              IN  DataFrameOf({ data.entries[i].key : i \in keys },
                      [r \in 1..n |->
                          { <<data.entries[i].key,
                              flatten_kind(data.entries[i].value.items[r].kind)>> :
                                i \in keys }])
         ELSE IF first_object_array(data) # 0
         THEN \* the nested array becomes the table
              LET items == data.entries[first_object_array(data)].value.items
                  rows == [r \in 1..Len(items) |-> flattened_item(items[r])]
              IN  DataFrameOf(ColumnsOf(rows), rows)
         ELSE \* a single object: one row
              LET row == { <<data.entries[i].key, flatten_kind(data.entries[i].value.kind)>> :
                             i \in 1..Len(data.entries) }
              IN  DataFrameOf(ColumnsOf(<<row>>), <<row>>)
    ELSE EmptyDataFrame

InitJson ==
    /\ json_data = NULL
    /\ json_table = NULL

InitJsonInputs ==
    /\ json_data \in JsonInputs
    /\ json_table = NULL

\* extract(data) without data_path and field_mappings; the date conversion
\* that follows changes the content of cells, not the rows or the columns.
extract ==
    /\ json_data # NULL
    /\ json_table = NULL
    /\ json_table' = _extract_data(json_data)
    /\ UNCHANGED json_data
    /\ UNCHANGED nonJsonVars

NextJson == extract

(***************************************************************************)
(* The specifications: the scrape lifecycle of one scraper instance, the   *)
(* warehouse with one caller at a time, the warehouse with concurrent      *)
(* callers, the batch over several sites, the robots.txt gate, the network *)
(* inspector and its scorer.                                               *)
(***************************************************************************)
vars == <<scraperVars, warehouseVars, batchVars, robotsVars, inspectorVars,
          retryVars, jsonVars>>

Init ==
    /\ InitScraper /\ InitWarehouse /\ InitBatch /\ InitRobots /\ InitInspector
    /\ InitRetry
    /\ InitJson

Next == NextScraper

Spec == Init /\ [][Next]_vars

\* a scraper constructed with the default max_retries, and an empty warehouse
InitDefault ==
    /\ InitScraper
    /\ max_retries = DefaultMaxRetries
    /\ InitWarehouse
    /\ InitBatch
    /\ InitRobots
    /\ InitInspector
    /\ InitRetry
    /\ InitJson

SpecWarehouse == InitDefault /\ [][NextWarehouse]_vars

SpecConcurrent == InitDefault /\ [][NextConcurrent]_vars

SpecBatch == InitDefault /\ [][NextBatch]_vars

\* the gate applied to every argument
InitGate ==
    /\ InitScraper
    /\ max_retries = DefaultMaxRetries
    /\ InitWarehouse
    /\ InitBatch
    /\ InitRobotsInputs
    /\ InitInspector
    /\ InitRetry
    /\ InitJson

SpecRobots == InitGate /\ [][NextRobots]_vars

\* The inspector analysing a list of captured requests.
SpecInspector == InitDefault /\ [][NextInspector]_vars

\* One call of _calculate_score on a drawn request.
InitScore ==
    /\ InitScraper
    /\ max_retries = DefaultMaxRetries
    /\ InitWarehouse
    /\ InitBatch
    /\ InitRobots
    /\ InitScoreInputs
    /\ InitRetry
    /\ InitJson

SpecScore == InitScore /\ [][NextScore]_vars

\* One call of _retry_operation on a scraper built with any max_retries.
InitRetryCall ==
    /\ InitScraper
    /\ max_retries = DefaultMaxRetries
    /\ InitWarehouse
    /\ InitBatch
    /\ InitRobots
    /\ InitInspector
    /\ InitRetryInputs
    /\ InitJson

SpecRetry == InitRetryCall /\ [][NextRetry]_vars

\* One call of extract on a drawn JSON value.
InitExtract ==
    /\ InitScraper
    /\ max_retries = DefaultMaxRetries
    /\ InitWarehouse
    /\ InitBatch
    /\ InitRobots
    /\ InitInspector
    /\ InitRetry
    /\ InitJsonInputs

SpecJson == InitExtract /\ [][NextJson]_vars

(***************************************************************************)
(* Properties of the scrape lifecycle.                                     *)
(***************************************************************************)

\* C1: when the robots verdict of the scrape is DISALLOWED, the call has
\* returned a failed result with an error, and fetch, raw-response
\* persistence, parse and validate were not invoked for it, whatever the
\* override flag; the compliance check itself runs once, never again.
C1_DisallowedIsFatal ==
    /\ calls.compliance <= 1
    /\ (calls.compliance = 1 /\ _robots_decision = RobotsDecision("DISALLOWED")) =>
           /\ returned = "result"
           /\ ~result.success
           /\ result.error # NULL
           /\ calls.fetch = 0
           /\ calls.sleep = 0
           /\ calls.save = 0
           /\ calls.parse = 0
           /\ calls.validate = 0

C1_Witness ==
    /\ returned = "result"
    /\ calls.compliance = 1
    /\ _robots_decision = RobotsDecision("DISALLOWED")
    /\ call.override_robots

\* C2: when the robots verdict of the scrape is UNKNOWN and the caller did
\* not pass the override, no fetch is performed.
C2_UnknownNeedsOverride ==
    (calls.compliance = 1 /\ _robots_decision = RobotsDecision("UNKNOWN") /\ ~call.override_robots)
        => calls.fetch = 0

\* every failed attempt of the retry sequence was network-classified
AllNetwork == \A i \in 1..Len(err_types) : err_types[i] = "network"

\* C3: the wrapped operation is never invoked more than max_retries times;
\* when it was run and raised a network-classified exception on every
\* attempt, the call ends after exactly max_retries invocations, with the
\* exception of the last attempt (the one raised on attempt max_retries - 1).
C3_RetryExhaustion ==
    /\ calls.fetch <= max_retries
    /\ (/\ returned = "result"
        /\ result.robots_decision # NULL
        /\ calls.fetch = Len(err_types)
        /\ AllNetwork)
       => /\ calls.fetch = max_retries
          /\ max_retries >= 1 => result.error = Exc("ConnectionError", {}, max_retries - 1)

C3_Witness ==
    /\ returned = "result"
    /\ max_retries = DefaultMaxRetries
    /\ err_types = <<"network", "network", "network">>
    /\ calls.fetch = 3
    /\ result.error = Exc("ConnectionError", {}, 2)

\* C4: an attempt that fails with a parsing-classified exception is the only
\* attempt: no attempt follows it and no backoff delay is slept after it.
C4_ParsingNotRetried ==
    \A i \in 1..Len(err_types) :
        err_types[i] = "parsing" => (calls.fetch = i /\ calls.sleep < i)

\* C5: a returned ScraperResult is a success exactly when its error is null.
C5_SuccessXorError ==
    returned = "result" => (result.success <=> result.error = NULL)

C5_Witness ==
    /\ returned = "result"
    /\ ~result.success
    /\ result.error = NoDataExtracted

\* C6: when compliance, fetch and parse completed without raising (parse
\* returned a table), the call ends as a success exactly when the table is
\* not empty; the warnings of validate, however many, are attached to the
\* successful result.
C6_SuccessIffData ==
    (returned = "result" /\ calls.parse = 1 /\ df # NULL) =>
        /\ result.success <=> ~df.empty
        /\ result.success =>
              /\ calls.validate = 1
              /\ result.validation_warnings \in 0..MaxWarnings
              /\ result.data = df

C6_Witness ==
    /\ returned = "result"
    /\ calls.parse = 1
    /\ df = DataFrame(FALSE)
    /\ result.success
    /\ result.validation_warnings = MaxWarnings

\* C7: over the lifetime of the scraper instance no URL is loaded by
\* discovery more than once.
C7_OneLoadPerUrl ==
    \A u \in URLs : page_loads[u] <= 1

\* C15: a network operation that exceeds its timeout surfaces in the retry
\* policy as an error of class network: an attempt that failed because the
\* request timed out is classified network.
C15_TimeoutIsNetwork ==
    (last_error # NULL /\ "timed out" \in last_error.msg) =>
        /\ err_types # <<>>
        /\ err_types[Len(err_types)] = "network"

(***************************************************************************)
(* Properties of the warehouse and of the normalization flow.              *)
(***************************************************************************)
NoDuplicateIds ==
    \A i, j \in 1..Len(_data) : _data[i].id = _data[j].id => i = j

\* C8: with one caller at a time the warehouse holds at most one record per
\* id, and that record is the one of the first insert with the id: every id
\* inserted so far is stored once, with the value its first insert carried,
\* whatever later inserts with the same id carried.
C8_FirstInsertWins ==
    /\ NoDuplicateIds
    /\ \A i \in 1..Len(_data) : _data[i].value = first_value[_data[i].id]
    /\ \A id \in PointIds : first_value[id] # 0 => id \in StoredIds(_data)

\* more inserts were made than records are stored: an insert was dropped
C8_Witness ==
    /\ Len(_data) >= 1
    /\ Len(_data) < inserts
    /\ C8_FirstInsertWins

\* C9: with concurrent callers no interleaving leaves two stored records of
\* one id, and no interleaving loses a record: the id of every insert that
\* has returned is stored.
C9_AtomicInsert ==
    /\ NoDuplicateIds
    /\ \A id \in finished : id \in StoredIds(_data)

\* C10: after a successful fetch_and_normalize every point the transformers
\* produced has been handed to the warehouse, those the category filter
\* removed from the returned view included: each produced id is stored and
\* points_added counts all produced points, while the returned view holds
\* only points that were produced.
C10_StoresAllProduced ==
    (normalization # NULL /\ normalization.success) =>
        /\ \A i \in 1..Len(produced) : produced[i].id \in StoredIds(_data)
        /\ normalization.points_added = Len(produced)
        /\ Len(normalization.normalized_points) <= Len(produced)

\* a successful call whose view lost a point to the category filter
C10_Witness ==
    /\ normalization # NULL
    /\ normalization.success
    /\ Len(normalization.normalized_points) < Len(produced)
    /\ \E i \in 1..Len(produced) :
          /\ \A k \in 1..Len(normalization.normalized_points) :
                normalization.normalized_points[k].id # produced[i].id
          /\ produced[i].id \in StoredIds(_data)

\* C11: when categories are given, every point of the returned view belongs
\* to one of the requested categories.
C11_ViewOnlyRequestedCategories ==
    (normalization # NULL /\ normalization.success /\ normalization.categories # {}) =>
        \A i \in 1..Len(normalization.normalized_points) :
            normalization.normalized_points[i].category \in normalization.categories

\* C12: a failing validation report does not abort the run: the produced
\* points are stored, the run is successful, and the validation failure is
\* in the result's warning list.
C12_ValidationNeverAborts ==
    (/\ normalization # NULL
     /\ normalization.validation_reports # NULL
     /\ ~normalization.validation_reports.passed) =>
        /\ normalization.success
        /\ \A i \in 1..Len(produced) : produced[i].id \in StoredIds(_data)
        /\ "validation error" \in normalization.warnings

(***************************************************************************)
(* Properties of the multi-site batch.                                     *)
(***************************************************************************)
\* C13: the sites of a batch are scraped one at a time in list order, and a
\* failing site does not end the batch: the calls made so far are the first
\* sites of the list in order, and a batch that has returned has called
\* scrape_single_site for every site of its list exactly once.
C13_BatchContinuesAfterFailure ==
    /\ Len(attempts) <= Len(site_ids)
    /\ \A i \in 1..Len(attempts) : attempts[i] = site_ids[i]
    /\ batch_pc = "returned" => attempts = site_ids

\* a batch that returned after its first site failed and a later site was scraped
C13_Witness ==
    /\ batch_pc = "returned"
    /\ Len(site_ids) >= 2
    /\ outcomes[1] \in FailureOutcomes
    /\ attempts = site_ids

\* C14: the outcome of a batch identifies every site that failed.
C14_FailedSitesReported ==
    batch_outcome # NULL =>
        \A i \in 1..Len(attempts) :
            outcomes[i] \in FailureOutcomes =>
                \E k \in 1..Len(batch_outcome.sources_failed) :
                    batch_outcome.sources_failed[k] = attempts[i]

(***************************************************************************)
(* Properties of the robots.txt compliance gate.                           *)
(***************************************************************************)
\* the URLs the gate is to let through unchecked: path contains /api/, or
\* host starts with api.
ApiUrl(url) ==
    \/ Contains(path_or_root(url.path), Str_api_slash)
    \/ StartsWith(url.host, Str_api_dot)

\* C16: the gate skips the robots.txt fetch and returns ALLOWED for a URL
\* exactly when its path contains /api/ or its host starts with api.; every
\* other URL is evaluated against robots.txt.
C16_BypassExactlyForApiUrls ==
    \A i \in 1..Len(robots_results) :
        (~robots_results[i].fetched /\ robots_results[i].status = "ALLOWED")
            <=> ApiUrl(robots_results[i].url)

\* C17: a robots.txt request answered with 404 gives ALLOWED without any
\* parsing, and a request that fails in another way (timeout, connection
\* error, other status) gives UNKNOWN.
C17_NotFoundAllowedFailureUnknown ==
    \A i \in 1..Len(robots_results) :
        robots_results[i].fetched =>
            /\ robots_response.kind = "404" =>
                  (robots_results[i].status = "ALLOWED" /\ ~robots_results[i].parsed)
            /\ robots_response.kind \in FailureKinds =>
                  (robots_results[i].status = "UNKNOWN" /\ ~robots_results[i].parsed)

\* a URL decided on a 404 answer
C17_Witness ==
    /\ robots_entry = "check_robots_permission"
    /\ robots_response.kind = "404"
    /\ robots_results[1].fetched
    /\ robots_results[1].status = "ALLOWED"

ExampleRobots ==
    << Line("user-agent", "*"), Line("disallow", Str_api_slash),
       Line("allow", Path_public) >>

\* C18: within the block applied to the user agent, a path matching an Allow
\* rule is allowed even if a Disallow rule matches it too, and a path
\* matching a Disallow rule and no Allow rule is disallowed; with
\* Disallow: /api/ and Allow: /api/public/, /api/private is disallowed and
\* /api/public/x is allowed.
C18_AllowOverridesDisallow ==
    /\ ~is_allowed(RobotsParser(ExampleRobots), UserAgent, Path_private)
    /\ is_allowed(RobotsParser(ExampleRobots), UserAgent, Path_public_x)
    /\ \A i \in 1..Len(robots_results) :
          robots_results[i].parsed =>
              LET block == agent_rules(RobotsParser(robots_response.content), UserAgent)
                  path == path_or_root(robots_results[i].url.path)
              IN  /\ AnyMatch(path, block.allow) => robots_results[i].status = "ALLOWED"
                  /\ (AnyMatch(path, block.disallow) /\ ~AnyMatch(path, block.allow))
                        => robots_results[i].status = "DISALLOWED"

\* a parsed decision for a path that an Allow and a Disallow rule both match
C18_Witness ==
    \E i \in 1..Len(robots_results) :
        /\ robots_results[i].parsed
        /\ LET block == agent_rules(RobotsParser(robots_response.content), UserAgent)
               path == path_or_root(robots_results[i].url.path)
           IN  /\ AnyMatch(path, block.allow)
               /\ AnyMatch(path, block.disallow)
        /\ robots_results[i].status = "ALLOWED"

(***************************************************************************)
(* The network inspector.                                                  *)
(***************************************************************************)
\* C19: for every captured response, whatever its URL, content type,
\* content length and body, the confidence score computed by
\* _calculate_score lies between 0.0 and 1.0 inclusive.
C19_ScoreInUnitInterval ==
    \A i \in 1..Len(score_result) :
        0 <= score_result[i] /\ score_result[i] <= Scale

\* A score was computed for a response whose points, before the
\* normalisation, are above ten or below zero.
C19_Witness ==
    /\ score_result # <<>>
    /\ \/ raw_score(score_request, score_target) > Scale
       \/ raw_score(score_request, score_target) < 0

\* C20: the candidate list that analyze_requests returns is sorted by
\* confidence descending, whatever the arrival order of the captured
\* responses: no candidate has a lower score than the one behind it.
C20_CandidatesSortedDescending ==
    inspector_pc = "returned" =>
        \A i \in 1..(Len(candidates) - 1) :
            candidates[i].confidence_score >= candidates[i + 1].confidence_score

\* A returned list whose first candidate arrived after its second one and
\* has the strictly higher score.
C20_Witness ==
    /\ inspector_pc = "returned"
    /\ Len(candidates) >= 2
    /\ candidates[1].request > candidates[2].request
    /\ candidates[1].confidence_score > candidates[2].confidence_score

\* C21: every candidate that analyze_requests returns comes from a response
\* with status 200 and a JSON or CSV content type and has a score of at
\* least 0.2; a response failing any of these conditions is absent from the
\* returned list.
C21_OnlyQualifiedCandidates ==
    inspector_pc = "returned" =>
        /\ \A i \in 1..Len(candidates) :
            LET request == captured[candidates[i].request] IN
            /\ request.status = 200
            /\ is_json(request) \/ is_csv(request)
            /\ candidates[i].confidence_score >= MinScore
            /\ candidates[i].confidence_score =
                   _calculate_score(request, target_domain)
        /\ \A k \in 1..Len(captured) :
            (\/ captured[k].status # 200
             \/ ~is_json(captured[k]) /\ ~is_csv(captured[k])
             \/ _calculate_score(captured[k], target_domain) < MinScore)
            => \A i \in 1..Len(candidates) : candidates[i].request # k

\* A returned list that holds one of two captured responses: the other one
\* has status 200 and a JSON content type but a score below 0.2.
C21_Witness ==
    /\ inspector_pc = "returned"
    /\ Len(captured) = 2
    /\ Len(candidates) = 1
    /\ \E k \in 1..2 :
        /\ captured[k].status = 200
        /\ is_json(captured[k])
        /\ _calculate_score(captured[k], target_domain) < MinScore

(***************************************************************************)
(* The scrape lifecycle, continued.                                        *)
(***************************************************************************)
\* C22: in every scrape entry point the robots verdict for the target URL is
\* obtained before the page loader navigates to that URL: whenever a page
\* load of a URL takes place, the compliance check of the current call has
\* run, and its verdict is not DISALLOWED.
C22_ComplianceBeforePageLoad ==
    [][\A u \in URLs :
          page_loads'[u] > page_loads[u] =>
              /\ calls'.compliance = 1
              /\ _robots_decision' # RobotsDecision("DISALLOWED")]_vars

\* C23: within one scrape the lifecycle only moves forward through fetch,
\* parse, validate to a terminal state: the compliance check, the parse
\* step and the validate step each run at most once, only the fetch step
\* is re-executed, and once parse has run (failed or not) the call is never
\* at the compliance or fetch step again.
C23_LifecycleMovesForward ==
    /\ calls.compliance <= 1
    /\ calls.parse <= 1
    /\ calls.validate <= 1
    /\ pc \in {"compliance", "fetch", "save"} =>
           (calls.parse = 0 /\ calls.validate = 0)
    /\ pc = "fetch" => calls.compliance = 1
    /\ calls.parse = 1 => pc \in {"validate", "idle"}
    /\ calls.validate = 1 => (pc = "idle" /\ calls.parse = 1)

\* A scrape whose fetch step was re-executed and whose parse step then
\* failed: the call has ended, parse ran once.
C23_Witness ==
    /\ returned = "result"
    /\ calls.fetch >= 2
    /\ calls.parse = 1
    /\ df = NULL
    /\ ~result.success

\* C24: during the fetch step a direct HTTP request is issued only when a
\* candidate endpoint exists and its captured body is null; when the best
\* candidate has a captured body that body is reused, and when no candidate
\* exists the captured HTML is used, in both cases without a direct request.
C24_DirectRequestOnlyWithoutBody ==
    /\ calls.direct > 0 =>
           _discovery_result = DiscoveryResult(call.url, "endpoint_nobody")
    /\ (pc = "save" /\ _discovery_result.kind = "endpoint_body") =>
           (calls.direct = 0 /\ raw_data.type = "api_json")
    /\ (pc = "save" /\ _discovery_result.kind = "html_only") =>
           (calls.direct = 0 /\ raw_data.type = "dom_table")

\* A fetch that ended well after a direct request for an endpoint without a
\* captured body.
C24_Witness ==
    /\ pc = "save"
    /\ calls.direct >= 1
    /\ raw_data.type = "api_json"

\* C26: when a fetch attempt failed because the page load returned an
\* error, the failed discovery is not reused: the attempt that follows in
\* the same retry sequence performs a new page load of the URL.
C26_FailedDiscoveryNotReused ==
    [][(/\ pc = "fetch"
        /\ attempt >= 1
        /\ _discovery_result = DiscoveryResult(call.url, "page_error")
        /\ calls'.fetch = calls.fetch + 1)
       => page_loads'[call.url] = page_loads[call.url] + 1]_vars

(***************************************************************************)
(* The retry wrapper.                                                      *)
(***************************************************************************)
\* C25: in a retry sequence of a scraper with an auth configuration, the
\* first auth-classified failure, on whichever attempt it occurs, provided a
\* retry remains, triggers a session refresh before the next attempt; later
\* auth failures of the sequence trigger none.
C25_FirstAuthFailureRefreshes ==
    auth_config =>
        \A i \in 1..Len(retry_log) :
            (retry_log[i].error_type = "auth" /\ retry_log[i].attempt < retry_max - 1)
            => (retry_log[i].refreshed
                   <=> \A j \in 1..(i - 1) : retry_log[j].error_type # "auth")

\* the delay, in tenths of a second, lies between base*k^a + lo and
\* base*k^a + hi
DelayWithin(delay, k, a, lo, hi) ==
    /\ RetryDelay * Pow(k, a) + lo <= delay
    /\ delay <= RetryDelay * Pow(k, a) + hi

\* C27: between two consecutive attempts of a retried operation exactly one
\* delay is applied, computed from the class of the failure that just
\* occurred and the 0-based attempt index a as base*k^a plus jitter (k=3,
\* jitter 5..15 s for rate_limit; k=4, 10..30 for bot_detection; k=2, 2..5
\* for auth; k=2, 0.5..2.0 for network; k=2, 0.5..1.5 for unknown); no delay
\* is applied after the final attempt or after an attempt that returned.
C27_OneDelayPerRetry ==
    \A i \in 1..Len(retry_log) :
        LET entry == retry_log[i]
            a     == entry.attempt
        IN  /\ a = i - 1
            /\ (entry.error_type # "none" /\ a < retry_max - 1) =>
                  /\ entry.slept = 1
                  /\ entry.error_type = "rate_limit" =>
                         DelayWithin(entry.delay, 3, a, 50, 150)
                  /\ entry.error_type = "bot_detection" =>
                         DelayWithin(entry.delay, 4, a, 100, 300)
                  /\ entry.error_type = "auth" =>
                         DelayWithin(entry.delay, 2, a, 20, 50)
                  /\ entry.error_type = "network" =>
                         DelayWithin(entry.delay, 2, a, 5, 20)
                  /\ entry.error_type = "unknown" =>
                         DelayWithin(entry.delay, 2, a, 5, 15)
            /\ (entry.error_type = "none" \/ a >= retry_max - 1) =>
                  entry.slept = 0

\* Three failed attempts: a rate-limit failure, then a bot-detection failure
\* on attempt 1, each followed by its delay, then the final failure.
C27_Witness ==
    /\ retry_pc = "done"
    /\ Len(retry_log) = 3
    /\ retry_log[1].error_type = "rate_limit"
    /\ retry_log[2].error_type = "bot_detection"
    /\ retry_log[2].slept = 1
    /\ retry_log[3].error_type = "network"
    /\ retry_log[3].slept = 0

\* C30: for every configured max_retries, 0 included, the retry wrapper
\* ends either by returning the operation's result or by raising the
\* exception the operation raised on its last attempt; it raises no error
\* of its own.
C30_RaisesOnlyOperationErrors ==
    retry_pc = "done" =>
        \/ retry_outcome.kind = "returned"
        \/ /\ retry_outcome.kind = "raised"
           /\ retry_last_error # NULL
           /\ retry_outcome.error = retry_last_error
           /\ retry_last_error.at = retry_max - 1

(***************************************************************************)
(* The warehouse, continued.                                               *)
(***************************************************************************)
\* C28: the number reported as data points added (the points_added field of
\* fetch_and_normalize) equals the number of records the call added to the
\* warehouse, the growth of the stored record count; points dropped as
\* duplicate ids do not count.
C28_PointsAddedIsGrowth ==
    [][(normalization' # normalization /\ normalization'.success)
       => normalization'.points_added = Len(_data') - Len(_data)]_vars

(***************************************************************************)
(* The JSON extractor.                                                     *)
(***************************************************************************)
\* the entries of the object that hold a list
ListEntries(data) == { i \in 1..Len(data.entries) : data.entries[i].value.kind = "list" }

\* C29: given a JSON object that contains one nested array-of-objects value
\* (its only list) and no data path, extract returns a table whose rows are
\* the elements of that array: one row per element, the elements' keys as
\* columns.
C29_NestedArrayBecomesTable ==
    (/\ json_table # NULL
     /\ json_data.kind = "dict"
     /\ Cardinality(ListEntries(json_data)) = 1
     /\ \A i \in ListEntries(json_data) :
            LET items == json_data.entries[i].value.items
            IN  items # <<>> /\ \A r \in 1..Len(items) : items[r].kind = "dict")
    => \A i \in ListEntries(json_data) :
           LET items == json_data.entries[i].value.items IN
           /\ Len(json_table.rows) = Len(items)
           /\ json_table.columns =
                  UNION { { f[1] : f \in items[r].fields } : r \in 1..Len(items) }
           /\ \A r \in 1..Len(items) :
                  { c[1] : c \in json_table.rows[r] } = { f[1] : f \in items[r].fields }

====
